---- MODULE Spec2Model ----
(***************************************************************************)
(* recipe-box: the ingredient parser service (safe_parse_ingredient and    *)
(* its two endpoints) and the meal planner service in its two variants     *)
(* (http.server handler and FastAPI app).                                  *)
(*                                                                         *)
(* Strings are sequences of one-character strings, so that strip, rstrip,  *)
(* startswith, slicing, re.match and join are computed character by        *)
(* character as Python computes them.                                      *)
(***************************************************************************)
EXTENDS Integers, Sequences, FiniteSets, TLC

VARIABLES
    svc,                \* which run this behaviour is: "parse", "batch", "planner", "concurrent"
    pc,                 \* position of the request handler
    text,               \* /parse: IngredientInput.text
    parsed,             \* /parse: what the parsing engine does on this call
    result,             \* /parse: outcome of safe_parse_ingredient
    batch,              \* /parse-batch: BatchIngredientInput.ingredients
    engine_calls,       \* /parse-batch: engine behaviour of each call made so far
    parsed_ingredients, \* /parse-batch: the list being built
    variant,            \* meal planner: "http" (main.py) or "fastapi" (main_fastapi.py)
    endpoint,           \* meal planner: "meal" or "subst"
    api_key,            \* meal planner: whether ANTHROPIC_API_KEY is set
    request,            \* meal planner: the request body
    completion,         \* meal planner: what the completion engine answered
    response,           \* meal planner: the HTTP response sent
    api_calls,          \* meal planner: calls made to the completion engine
    ingredients_text,   \* meal planner: the ingredient lines of the substitution prompt
    inflight            \* requests served side by side: the locals of each

parserVars == <<text, parsed, result, batch, engine_calls, parsed_ingredients>>
plannerVars ==
    <<variant, endpoint, api_key, request, completion, response, api_calls,
      ingredients_text, inflight>>
vars == <<svc, pc, parserVars, plannerVars>>

-----------------------------------------------------------------------------
(* Bounds *)

\* longest numeral part of an ingredient text ("1 1/2" has 5 characters)
MaxHead == 5
\* longest text of an engine name token (", ," has 3 characters)
MaxTok == 3
\* longest /parse-batch input
MaxBatch == 2
\* most day entries in the week of a completion
MaxDays == 1
\* longest ingredient list of a substitution request
MaxIngredients == 2
\* requests served side by side
MaxRequests == 2

-----------------------------------------------------------------------------
(* Python str operations *)

SeqsUpTo(S, n) == UNION {[1..k -> S] : k \in 0..n}

Range(s) == {s[i] : i \in 1..Len(s)}

Whitespace == {" ", "\n"}

Digits == {"1", "2"}

\* s[n:]
DropFirst(s, n) == IF n >= Len(s) THEN <<>> ELSE SubSeq(s, n + 1, Len(s))

\* s[:-n], n > 0
DropLast(s, n) == IF n >= Len(s) THEN <<>> ELSE SubSeq(s, 1, Len(s) - n)

startswith(s, p) == Len(s) >= Len(p) /\ SubSeq(s, 1, Len(p)) = p

endswith(s, p) == Len(s) >= Len(p) /\ SubSeq(s, Len(s) - Len(p) + 1, Len(s)) = p

RECURSIVE lstrip(_, _)
lstrip(s, chars) ==
    IF s # <<>> /\ Head(s) \in chars THEN lstrip(Tail(s), chars) ELSE s

RECURSIVE rstrip(_, _)
rstrip(s, chars) ==
    IF s # <<>> /\ s[Len(s)] \in chars THEN rstrip(DropLast(s, 1), chars) ELSE s

strip(s) == rstrip(lstrip(s, Whitespace), Whitespace)

RECURSIVE join(_, _)
join(sep, parts) ==
    IF parts = <<>> THEN <<>>
    ELSE IF Len(parts) = 1 THEN parts[1]
    ELSE parts[1] \o sep \o join(sep, Tail(parts))

\* number of consecutive characters of class S in s from position i on
RECURSIVE RunLen(_, _, _)
RunLen(s, i, S) ==
    IF i <= Len(s) /\ s[i] \in S THEN 1 + RunLen(s, i + 1, S) ELSE 0

-----------------------------------------------------------------------------
(* Python values of the parsing engine's result *)

\* an attribute that may be absent, None or a value; s is str(value)
NoAttr == [k |-> "noattr", s |-> <<>>]
PyNone == [k |-> "none", s |-> <<>>]
PyS(s) == [k |-> "str", s |-> s]

\* str(x)
str(v) == IF v.k = "none" THEN <<"N", "o", "n", "e">> ELSE v.s

\* Optional[str] fields of ParsedIngredient
Null == [null |-> TRUE, s |-> <<>>]
Some(s) == [null |-> FALSE, s |-> s]

ParsedIngredient(name, quantity, unit, comment, original_text) ==
    [name |-> name, quantity |-> quantity, unit |-> unit, comment |-> comment,
     original_text |-> original_text]

-----------------------------------------------------------------------------
(* safe_parse_ingredient *)

\* re.match(r'^(\d+(?:\s+\d+/\d+|\.\d+|/\d+)?)\s+', t): the length of group 1,
\* 0 when there is no match.  The alternatives are tried in the order written
\* and the empty alternative last; every quantifier is greedy and no shorter
\* run can match, because the character after a run is never of its class.
quantity_match(t) ==
    LET d1 == RunLen(t, 1, Digits)
        w1 == RunLen(t, d1 + 1, Whitespace)
        d2 == RunLen(t, d1 + w1 + 1, Digits)
        sl == d1 + w1 + d2 + 1
        d3 == RunLen(t, sl + 1, Digits)
        alt1 == IF w1 > 0 /\ d2 > 0 /\ sl <= Len(t) /\ t[sl] = "/" /\ d3 > 0
                   /\ RunLen(t, sl + d3 + 1, Whitespace) > 0
                THEN sl + d3 ELSE 0
        dd == RunLen(t, d1 + 2, Digits)
        alt2 == IF d1 < Len(t) /\ t[d1 + 1] = "." /\ dd > 0
                   /\ RunLen(t, d1 + 2 + dd, Whitespace) > 0
                THEN d1 + 1 + dd ELSE 0
        alt3 == IF d1 < Len(t) /\ t[d1 + 1] = "/" /\ dd > 0
                   /\ RunLen(t, d1 + 2 + dd, Whitespace) > 0
                THEN d1 + 1 + dd ELSE 0
    IN  IF d1 = 0 THEN 0
        ELSE IF alt1 > 0 THEN alt1
        ELSE IF alt2 > 0 THEN alt2
        ELSE IF alt3 > 0 THEN alt3
        ELSE IF w1 > 0 THEN d1
        ELSE 0

\* lines 46-48: name = str(parsed.name[0].text) when parsed.name is a non-empty list
ExtractName(p) ==
    IF p.name.k = "list" /\ Len(p.name.toks) > 0 THEN str(p.name.toks[1]) ELSE <<>>

\* lines 60-61: parsed.amount is a non-empty list
HasAmount(p) == p.amount.k = "list" /\ Len(p.amount.entries) > 0

\* lines 51-64: the regex on text.strip() first, the engine's amount second
ExtractQuantity_EngineFirst(t, p) ==
    LET n == quantity_match(strip(t))
    IN  IF HasAmount(p) /\ p.amount.entries[1].quantity.k = "str"
        THEN Some(str(p.amount.entries[1].quantity))
        ELSE IF n > 0 THEN Some(SubSeq(strip(t), 1, n)) ELSE Null

ExtractQuantity(t, p) ==
    LET n == quantity_match(strip(t))
        quantity == IF n > 0 THEN Some(SubSeq(strip(t), 1, n)) ELSE Null
    IN  IF HasAmount(p) /\ (quantity.null \/ quantity.s = <<>>)
           /\ p.amount.entries[1].quantity.k = "str"
        THEN Some(str(p.amount.entries[1].quantity))
        ELSE quantity

\* lines 65-66
ExtractUnit(p) ==
    IF HasAmount(p) /\ p.amount.entries[1].unit.k = "str"
    THEN Some(str(p.amount.entries[1].unit))
    ELSE Null

\* lines 72-73, 76-77, 80-81: `x and hasattr(x, 'text')` then str(x.text)
NotePart(note) ==
    IF note.k = "obj" /\ note.text.k # "noattr" THEN <<str(note.text)>> ELSE <<>>

\* lines 69-81
NotesParts(p) == NotePart(p.comment) \o NotePart(p.preparation) \o NotePart(p.purpose)

\* line 83: ", ".join(notes_parts) if notes_parts else None
JoinNotes(notes_parts) ==
    IF notes_parts # <<>> THEN Some(join(<<",", " ">>, notes_parts)) ELSE Null

\* lines 86-87: name.strip().rstrip(',').strip()
CleanName(name) ==
    IF name # <<>> THEN strip(rstrip(strip(name), {","})) ELSE name

\* line 90: name or text
NameOrText_NoFallback(name, t) == name

NameOrText(name, t) == IF name # <<>> THEN name ELSE t

\* lines 99-105
FallbackRecord(t) == ParsedIngredient(t, Null, Null, Null, t)

\* lines 43-83: what raises inside the try block: the engine call, reading an
\* attribute the result lacks (name, amount, comment and preparation are read
\* unguarded; purpose is guarded by hasattr), or reading .text of a name token
\* that has none
BodyRaises(p) ==
    \/ p.call = "raise"
    \/ p.name.k = "missing"
    \/ (p.name.k = "list" /\ Len(p.name.toks) > 0 /\ p.name.toks[1].k = "noattr")
    \/ p.amount.k = "missing"
    \/ p.comment.k = "missing"
    \/ p.preparation.k = "missing"

\* lines 89-95
BodyValue(t, p) ==
    ParsedIngredient(NameOrText(CleanName(ExtractName(p)), t),
                     ExtractQuantity(t, p), ExtractUnit(p),
                     JoinNotes(NotesParts(p)), t)

\* lines 97-105: except Exception: return the fallback
Returned(v) == [exc |-> FALSE, ret |-> v]
Propagated == [exc |-> TRUE, ret |-> FallbackRecord(<<>>)]

except_Exception_OnlyCall(t, p) ==
    IF p.call = "raise" THEN Returned(FallbackRecord(t)) ELSE Propagated

except_Exception(t, p) == Returned(FallbackRecord(t))

\* lines 39-105
safe_parse_ingredient(t, p) ==
    IF BodyRaises(p) THEN except_Exception(t, p) ELSE Returned(BodyValue(t, p))

-----------------------------------------------------------------------------
(* Inputs of the ingredient parser service *)

\* ingredient texts: a numeral part followed by a short rest
HeadChars == {"1", " ", "/", "."}
Tails == {<<>>, <<" ">>, <<"a">>, <<" ", "a">>}
Texts == {h \o t : h \in SeqsUpTo(HeadChars, MaxHead), t \in Tails}

FewTexts == {<<>>, <<" ">>, <<"a">>, <<"2", " ", "a">>, <<"1", " ", "1", "/", "2", " ", "a">>}

\* parsed.name
NameField(k, toks) == [k |-> k, toks |-> toks]
TokTexts == {NoAttr, PyNone} \cup {PyS(s) : s \in SeqsUpTo({"a", " ", ","}, MaxTok)}
Names ==
    {NameField(k, <<>>) : k \in {"missing", "none", "nonlist", "list"}}
    \cup {NameField("list", <<t>>) : t \in TokTexts}
    \cup {NameField("list", <<t, PyS(<<"b">>)>>) : t \in TokTexts}

\* parsed.amount
AmountField(k, entries) == [k |-> k, entries |-> entries]
AmountEntry(q, u) == [quantity |-> q, unit |-> u]
Quantities == {NoAttr, PyNone, PyS(<<>>), PyS(<<"3">>)}
Units == {NoAttr, PyNone, PyS(<<"c">>)}
Amounts ==
    {AmountField(k, <<>>) : k \in {"missing", "none", "nonlist", "list"}}
    \cup {AmountField("list", <<AmountEntry(q, u)>>) : q \in Quantities, u \in Units}
    \cup {AmountField("list", <<AmountEntry(PyNone, PyNone), AmountEntry(PyS(<<"3">>), PyS(<<"c">>))>>)}

\* parsed.comment, parsed.preparation, parsed.purpose
NoteField(k, t) == [k |-> k, text |-> t]
NoteTexts == {NoAttr, PyNone, PyS(<<>>), PyS(<<"x">>)}
Notes ==
    {NoteField("missing", NoAttr), NoteField("none", NoAttr)}
    \cup {NoteField("obj", t) : t \in NoteTexts}

ParseResult(call, name, amount, comment, preparation, purpose) ==
    [call |-> call, name |-> name, amount |-> amount, comment |-> comment,
     preparation |-> preparation, purpose |-> purpose]

NoNote == NoteField("none", NoAttr)
PlainName == NameField("list", <<PyS(<<"a">>)>>)
NoAmount == AmountField("list", <<>>)

\* the engine behaviours tried: each field group is varied over all its values
\* with the other groups at a plain value
AmountEngines ==
    {ParseResult(c, PlainName, a, NoNote, NoNote, NoNote) : c \in {"ok", "raise"}, a \in Amounts}
NameEngines ==
    {ParseResult("ok", n, NoAmount, NoNote, NoNote, NoNote) : n \in Names}
NoteEngines ==
    {ParseResult("ok", PlainName, NoAmount, c, p, u) : c \in Notes, p \in Notes, u \in Notes}
Engines == AmountEngines \cup NameEngines \cup NoteEngines

\* the amount behaviours tried with every text
TextEngines ==
    {ParseResult(c, PlainName, a, NoNote, NoNote, NoNote) :
        c \in {"ok", "raise"},
        a \in {AmountField("none", <<>>), AmountField("list", <<AmountEntry(PyS(<<"3">>), PyNone)>>),
               AmountField("list", <<AmountEntry(PyNone, PyS(<<"c">>))>>)}}

ParseInputs == (Texts \X TextEngines) \cup (FewTexts \X Engines)

NoResult == Returned(FallbackRecord(<<>>))
IdleEngine == ParseResult("ok", PlainName, NoAmount, NoNote, NoNote, NoNote)

-----------------------------------------------------------------------------
(* JSON values: null, strings, lists and objects *)

JNull == [k |-> "null", s |-> <<>>, l |-> <<>>, o |-> <<>>]
JStr(s) == [k |-> "str", s |-> s, l |-> <<>>, o |-> <<>>]
JList(l) == [k |-> "list", s |-> <<>>, l |-> l, o |-> <<>>]
JObj(o) == [k |-> "obj", s |-> <<>>, l |-> <<>>, o |-> o]
\* a JSON number, kept as its digits
JNum(n) == [k |-> "num", s |-> n, l |-> <<>>, o |-> <<>>]

\* the value of a request field that may be left out
Absent == [present |-> FALSE, v |-> <<>>]
Given(v) == [present |-> TRUE, v |-> v]

NoRequest ==
    [recipes |-> <<>>, recipeId |-> Absent, title |-> Absent, ingredients |-> Absent,
     instructions |-> Absent, description |-> Absent,
     prepTime |-> Absent, cookTime |-> Absent, servings |-> Absent,
     specificIngredients |-> <<>>]
NoCompletion == [k |-> "none", text |-> <<>>]
NoResponse == [status |-> 0, detail |-> "", body |-> JNull]

PlannerIdle ==
    /\ variant = "none"
    /\ endpoint = "none"
    /\ api_key = FALSE
    /\ request = NoRequest
    /\ completion = NoCompletion
    /\ response = NoResponse
    /\ api_calls = 0
    /\ ingredients_text = <<>>
    /\ inflight = <<>>

ParserIdle ==
    /\ text = <<>>
    /\ parsed = IdleEngine
    /\ result = NoResult
    /\ batch = <<>>
    /\ engine_calls = <<>>
    /\ parsed_ingredients = <<>>

-----------------------------------------------------------------------------
(* POST /parse *)

ParseInit ==
    /\ svc = "parse"
    /\ pc = "request"
    /\ \E in \in ParseInputs : text = in[1] /\ parsed = in[2]
    /\ result = NoResult
    /\ batch = <<>>
    /\ engine_calls = <<>>
    /\ parsed_ingredients = <<>>
    /\ PlannerIdle

\* lines 107-110
parse_single_ingredient ==
    /\ svc = "parse"
    /\ pc = "request"
    /\ result' = safe_parse_ingredient(text, parsed)
    /\ pc' = "done"
    /\ UNCHANGED <<svc, text, parsed, batch, engine_calls, parsed_ingredients, plannerVars>>

ParseNext == parse_single_ingredient

SpecParse == ParseInit /\ [][ParseNext]_vars

-----------------------------------------------------------------------------
(* Claims about POST /parse *)

ParseDone == svc = "parse" /\ pc = "done"

\* the engine call raises, or a field of its result that the code reads
\* without a guard is not there
EngineFails ==
    \/ parsed.call = "raise"
    \/ "missing" \in {parsed.name.k, parsed.amount.k, parsed.comment.k, parsed.preparation.k}
    \/ (parsed.name.k = "list" /\ parsed.name.toks # <<>> /\ parsed.name.toks[1].k = "noattr")

\* C1: safe_parse_ingredient always returns a ParsedIngredient and never
\* raises to its caller, whatever the text and whatever the engine does; when
\* the engine call or a later read of a field of its result raises, the record
\* returned is exactly {name: text, quantity: null, unit: null, comment: null,
\* original_text: text}.
C1_NeverRaises ==
    ParseDone =>
        /\ ~result.exc
        /\ DOMAIN result.ret = {"name", "quantity", "unit", "comment", "original_text"}
        /\ EngineFails =>
              result.ret = [name |-> text, quantity |-> Null, unit |-> Null,
                            comment |-> Null, original_text |-> text]

\* a field read (not the call) raised on a text with a leading numeral, and the fallback came back
C1_Witness ==
    /\ ParseDone
    /\ parsed.call = "ok" /\ parsed.preparation.k = "missing"
    /\ text = <<"2", " ", "a">>
    /\ ~result.exc /\ result.ret.name = text /\ result.ret.quantity = Null

\* s occurs in t as a run of consecutive characters
IsSubstring(s, t) ==
    \E i \in 0..Len(t) : \E j \in i..Len(t) : s = SubSeq(t, i + 1, j)

\* C2: for every non-empty text and every engine result, normal or raising,
\* original_text is the text verbatim and name is not the empty string: name
\* is the full text, or what is left of the first name token's text after
\* cleaning (a non-empty part of it that neither starts nor ends with
\* whitespace).
C2_NameNeverEmpty ==
    (ParseDone /\ text # <<>>) =>
        /\ result.ret.original_text = text
        /\ result.ret.name # <<>>
        /\ \/ result.ret.name = text
           \/ /\ parsed.name.k = "list" /\ parsed.name.toks # <<>>
              /\ IsSubstring(result.ret.name, str(parsed.name.toks[1]))
              /\ result.ret.name[1] \notin Whitespace
              /\ result.ret.name[Len(result.ret.name)] \notin Whitespace

\* the first name token cleans to nothing, and the name is the text
C2_Witness ==
    /\ ParseDone
    /\ text = <<"2", " ", "a">>
    /\ parsed.name.k = "list" /\ parsed.name.toks # <<>>
    /\ parsed.name.toks[1] = PyS(<<" ", ",">>)
    /\ result.ret.name = text

\* the numeral forms of the quantity pattern, stated by their shape
IsInteger(s) == s # <<>> /\ \A i \in 1..Len(s) : s[i] \in Digits
IsSeparated(s, c) ==
    \E k \in 2..(Len(s) - 1) :
        s[k] = c /\ IsInteger(SubSeq(s, 1, k - 1)) /\ IsInteger(SubSeq(s, k + 1, Len(s)))
IsMixedFraction(s) ==
    \E i \in 1..Len(s) : \E j \in (i + 1)..Len(s) :
        /\ IsInteger(SubSeq(s, 1, i))
        /\ \A k \in (i + 1)..j : s[k] \in Whitespace
        /\ IsSeparated(SubSeq(s, j + 1, Len(s)), "/")
IsNumeral(s) ==
    IsInteger(s) \/ IsMixedFraction(s) \/ IsSeparated(s, ".") \/ IsSeparated(s, "/")

\* the lengths of the numerals the text starts with that whitespace follows
NumeralPrefixes(t) ==
    {k \in 1..(Len(t) - 1) : IsNumeral(SubSeq(t, 1, k)) /\ t[k + 1] \in Whitespace}

Longest(S) == CHOOSE k \in S : \A m \in S : m <= k

\* C3: when the engine returns a result whose fields can be read, quantity is
\* first-match-wins: if the trimmed text starts with an integer, integer +
\* whitespace + fraction, decimal or fraction followed by whitespace, it is
\* that numeral as written (the longest such, so "1 1/2 a" gives "1 1/2"),
\* whatever the engine's amount says; otherwise the first amount entry's
\* non-null quantity, stringified; otherwise null, never the empty string.
C3_QuantityFirstMatch ==
    (ParseDone /\ ~EngineFails) =>
        LET t == strip(text)
            amount == parsed.amount
        IN  IF NumeralPrefixes(t) # {}
            THEN result.ret.quantity = Some(SubSeq(t, 1, Longest(NumeralPrefixes(t))))
            ELSE IF amount.k = "list" /\ amount.entries # <<>>
                    /\ amount.entries[1].quantity.k = "str"
            THEN result.ret.quantity = Some(amount.entries[1].quantity.s)
            ELSE result.ret.quantity = Null

\* a mixed fraction is kept as written although the engine reports its own quantity
C3_Witness ==
    /\ ParseDone
    /\ text = <<"1", " ", "1", "/", "1", " ", "a">>
    /\ parsed.call = "ok" /\ parsed.amount.k = "list" /\ parsed.amount.entries # <<>>
    /\ parsed.amount.entries[1].quantity = PyS(<<"3">>)
    /\ result.ret.quantity = Some(<<"1", " ", "1", "/", "1">>)

\* the texts of the engine's notes that are there, not null and not empty, in
\* the order comment, preparation, purpose
PresentNote(note) ==
    IF note.k = "obj" /\ note.text.k = "str" /\ note.text.s # <<>>
    THEN <<note.text.s>> ELSE <<>>
PresentNotes == PresentNote(parsed.comment) \o PresentNote(parsed.preparation)
                    \o PresentNote(parsed.purpose)

\* C4: when the engine returns a result whose fields can be read, comment is
\* the ", "-join, in the order comment, preparation, purpose, of exactly the
\* note texts that are present, non-null and non-empty; it is null when there
\* is none, and never the empty string.
C4_CommentJoin ==
    (ParseDone /\ ~EngineFails) =>
        /\ result.ret.comment # Some(<<>>)
        /\ result.ret.comment =
              IF PresentNotes = <<>> THEN Null ELSE Some(join(<<",", " ">>, PresentNotes))

-----------------------------------------------------------------------------
(* POST /parse-batch *)

BatchTexts == {<<>>, <<"a">>, <<"1", " ", "a">>}
BatchEngines ==
    {ParseResult("raise", PlainName, NoAmount, NoNote, NoNote, NoNote),
     ParseResult("ok", PlainName, AmountField("list", <<AmountEntry(PyS(<<"3">>), PyS(<<"c">>))>>),
                 NoNote, NoNote, NoNote),
     ParseResult("ok", NameField("list", <<PyS(<<"b", ",">>)>>), NoAmount,
                 NoteField("missing", NoAttr), NoNote, NoNote)}

BatchInit ==
    /\ svc = "batch"
    /\ pc = "loop"
    /\ batch \in SeqsUpTo(BatchTexts, MaxBatch)
    /\ engine_calls = <<>>
    /\ parsed_ingredients = <<>>
    /\ text = <<>>
    /\ parsed = IdleEngine
    /\ result = NoResult
    /\ PlannerIdle

\* line 118: parsed_ingredients.append(...)
append_Dedup(list, item) ==
    IF item \in Range(list) THEN list ELSE Append(list, item)

append(list, item) == Append(list, item)

\* lines 117-118: one iteration of the loop; the engine's behaviour on this
\* call is the environment's choice
parse_batch_loop ==
    /\ svc = "batch"
    /\ pc = "loop"
    /\ Len(engine_calls) < Len(batch)
    /\ \E p \in BatchEngines :
         LET ingredient_text == batch[Len(engine_calls) + 1]
             r == safe_parse_ingredient(ingredient_text, p)
         IN  /\ engine_calls' = Append(engine_calls, p)
             /\ IF r.exc
                THEN pc' = "raised" /\ UNCHANGED parsed_ingredients
                ELSE pc' = pc /\ parsed_ingredients' = append(parsed_ingredients, r.ret)
    /\ UNCHANGED <<svc, text, parsed, result, batch, plannerVars>>

\* line 120: return BatchParseResponse(ingredients=parsed_ingredients)
parse_batch_return ==
    /\ svc = "batch"
    /\ pc = "loop"
    /\ Len(engine_calls) = Len(batch)
    /\ pc' = "done"
    /\ UNCHANGED <<svc, parserVars, plannerVars>>

BatchNext == parse_batch_loop \/ parse_batch_return

SpecBatch == BatchInit /\ [][BatchNext]_vars

\* C5: parse_batch_ingredients returns a list as long as its input, whose
\* i-th record has the i-th text as original_text and is what
\* safe_parse_ingredient makes of that text and that call's engine result,
\* whatever the engine did on the other elements: nothing is filtered,
\* reordered or deduplicated.
C5_BatchOneToOne ==
    svc = "batch" =>
        /\ pc # "raised"
        /\ Len(parsed_ingredients) = Len(engine_calls)
        /\ pc = "done" => Len(parsed_ingredients) = Len(batch)
        /\ \A i \in 1..Len(parsed_ingredients) :
              /\ i <= Len(batch)
              /\ parsed_ingredients[i].original_text = batch[i]
              /\ parsed_ingredients[i] = safe_parse_ingredient(batch[i], engine_calls[i]).ret

\* the same text twice, the engine raising on the first call only
C5_Witness ==
    /\ svc = "batch" /\ pc = "done"
    /\ batch = <<<<"1", " ", "a">>, <<"1", " ", "a">>>>
    /\ engine_calls[1].call = "raise" /\ engine_calls[2].call = "ok"
    /\ parsed_ingredients[1] = FallbackRecord(batch[1])
    /\ parsed_ingredients[2].unit = Some(<<"c">>)

-----------------------------------------------------------------------------
(* Meal planner service: completion text and json.loads *)

(***************************************************************************)
(* A completion text is a sequence of characters.  The fence markers are   *)
(* written out (three backticks and the letters j, s, o, n); the JSON      *)
(* inside is written with one character per token: { } [ ] as they are, an *)
(* upper-case letter for a member key with its colon, a digit or           *)
(* lower-case letter for a string literal ("0" is the empty string), "z"   *)
(* for null; commas are left out.                                          *)
(*   T title          D description   I ingredients   R instructions       *)
(*   S substitutionNotes   W week   L shopping_list   N notes   Y day      *)
(*   B breakfast   U lunch   E dinner   C recipe   K recipeId              *)
(***************************************************************************)
KeyChars == {"T", "D", "I", "R", "S", "W", "L", "N", "Y", "B", "U", "E", "C", "K"}
StringChars == {"0", "1", "2", "a", "c", "d", "m", "p", "q", "t", "u", "v", "w", "x"}

\* the value of a string literal or null
Atom(c) == IF c = "z" THEN JNull ELSE IF c = "0" THEN JStr(<<>>) ELSE JStr(<<c>>)

Parsed(v, next) == [ok |-> TRUE, v |-> v, next |-> next]
JSONDecodeError == [ok |-> FALSE, v |-> JNull, next |-> 0]

SkipWhitespace(s, i) == i + RunLen(s, i, Whitespace)

\* json.loads, by recursive descent; a repeated key keeps its last value
RECURSIVE parse_value(_, _)
RECURSIVE parse_array(_, _, _)
RECURSIVE parse_object(_, _, _)
parse_value(s, i0) ==
    LET i == SkipWhitespace(s, i0)
    IN  IF i > Len(s) THEN JSONDecodeError
        ELSE IF s[i] = "{" THEN parse_object(s, i + 1, <<>>)
        ELSE IF s[i] = "[" THEN parse_array(s, i + 1, <<>>)
        ELSE IF s[i] \in StringChars \cup {"z"} THEN Parsed(Atom(s[i]), i + 1)
        ELSE JSONDecodeError

parse_array(s, i0, acc) ==
    LET i == SkipWhitespace(s, i0)
    IN  IF i > Len(s) THEN JSONDecodeError
        ELSE IF s[i] = "]" THEN Parsed(JList(acc), i + 1)
        ELSE LET r == parse_value(s, i)
             IN  IF r.ok THEN parse_array(s, r.next, Append(acc, r.v)) ELSE JSONDecodeError

parse_object(s, i0, acc) ==
    LET i == SkipWhitespace(s, i0)
    IN  IF i > Len(s) THEN JSONDecodeError
        ELSE IF s[i] = "}" THEN Parsed(JObj(acc), i + 1)
        ELSE IF s[i] \in KeyChars
        THEN LET r == parse_value(s, i + 1)
             IN  IF r.ok THEN parse_object(s, r.next, (s[i] :> r.v) @@ acc)
                 ELSE JSONDecodeError
        ELSE JSONDecodeError

\* json.loads(s): one value, with nothing but whitespace around it
json_loads(s) ==
    LET r == parse_value(s, 1)
    IN  IF r.ok /\ SkipWhitespace(s, r.next) > Len(s) THEN r ELSE JSONDecodeError

\* the backtick, written ' here because a TLA+ string cannot hold one
Backtick == "'"

\* '```json' and '```'
Fence == <<Backtick, Backtick, Backtick, "j", "s", "o", "n">>
FenceEnd == <<Backtick, Backtick, Backtick>>

\* main.py lines 284-289 and 298-303, main_fastapi.py lines 141-146 and 232-237
fence_strip_ShortSlice(response_text) ==
    LET t1 == strip(response_text)
        t2 == IF startswith(t1, Fence) THEN DropFirst(t1, 6) ELSE t1
        t3 == IF endswith(t2, FenceEnd) THEN DropLast(t2, 3) ELSE t2
    IN  strip(t3)

fence_strip(response_text) ==
    LET t1 == strip(response_text)
        t2 == IF startswith(t1, Fence) THEN DropFirst(t1, 7) ELSE t1
        t3 == IF endswith(t2, FenceEnd) THEN DropLast(t2, 3) ELSE t2
    IN  strip(t3)

\* bool(x) of a parsed JSON value
Truthy(v) ==
    \/ v.k = "str" /\ v.s # <<>>
    \/ v.k = "list" /\ v.l # <<>>
    \/ v.k = "obj" /\ DOMAIN v.o # {}

\* d.get(key, default)
get(d, key, default) == IF key \in DOMAIN d.o THEN d.o[key] ELSE default

-----------------------------------------------------------------------------
(* Meal planner service: the handlers *)

HttpResponse(status, detail, body) == [status |-> status, detail |-> detail, body |-> body]

MsgMissingFields == "Missing required fields"
MsgInvalidFormat == "Invalid response format from AI. Please try again."
MsgSubstitutionFailed == "Failed to generate substitutions"
MsgSubstitutionParse == "Failed to parse substitution suggestions. Please try again."
\* detail=str(e): the text of whichever exception was caught
MsgException == "str(e)"
\* FastAPI's answer to a body that fails the request model
MsgValidation == "RequestValidationError"

Raised == [exc |-> TRUE, v |-> JNull]
Return(v) == [exc |-> FALSE, v |-> v]

\* main.py lines 307-311, main_fastapi.py lines 150-154
MealPlanFields(meal_plan_data) ==
    JObj(("W" :> get(meal_plan_data, "W", JList(<<>>)))
         @@ ("L" :> get(meal_plan_data, "L", JList(<<>>)))
         @@ ("N" :> get(meal_plan_data, "N", JStr(<<>>))))

\* main.py lines 275-323, once urlopen has answered: any exception inside is
\* re-raised as Exception("Failed to call Claude API: ...") (lines 317-323),
\* among them the JSONDecodeError and the AttributeError of .get on a parsed
\* value that is no dict
call_anthropic_api_EmptyOnDecodeError(c, parse_json) ==
    IF c.k # "text" THEN Raised
    ELSE LET r == json_loads(fence_strip(c.text))
         IN  IF ~r.ok THEN Return(MealPlanFields(JObj(<<>>)))
             ELSE IF parse_json THEN Return(r.v)
             ELSE IF r.v.k # "obj" THEN Raised
             ELSE Return(MealPlanFields(r.v))

call_anthropic_api(c, parse_json) ==
    IF c.k # "text" THEN Raised
    ELSE LET r == json_loads(fence_strip(c.text))
         IN  IF ~r.ok THEN Raised
             ELSE IF parse_json THEN Return(r.v)
             ELSE IF r.v.k # "obj" THEN Raised
             ELSE Return(MealPlanFields(r.v))

\* main.py lines 143-148
RecipeHandler_meal_plan_response(c) ==
    LET r == call_anthropic_api(c, FALSE)
    IN  IF r.exc THEN HttpResponse(500, MsgException, JNull)
        ELSE HttpResponse(200, "", r.v)

\* the literal "[SUBSTITUTE] "
SubstituteMark == <<"[", "S", "U", "B", "S", "T", "I", "T", "U", "T", "E", "]", " ">>

\* a rendering that marks no ingredient
ingredient_text_Unmarked(ing, specific_ingredients) ==
    strip(ing.quantity \o <<" ">> \o ing.unit \o <<" ">> \o ing.name)

\* main.py lines 170-178, main_fastapi.py lines 170-178: a field that is left
\* out reads as '', so it is rendered as the empty field is
ingredient_text(ing, specific_ingredients) ==
    LET needs_substitution == ing.id \in Range(specific_ingredients)
        t == strip(ing.quantity \o <<" ">> \o ing.unit \o <<" ">> \o ing.name)
    IN  IF needs_substitution THEN SubstituteMark \o t ELSE t

\* main.py lines 168-178: one entry per ingredient, in the order of the request
ingredients_list(req) ==
    [i \in 1..Len(req.ingredients.v) |->
        ingredient_text(req.ingredients.v[i], req.specificIngredients)]

\* main.py line 163
MissingRequired(req) ==
    \/ ~req.recipeId.present \/ req.recipeId.v = <<>>
    \/ ~req.title.present \/ req.title.v = <<>>
    \/ ~req.ingredients.present \/ req.ingredients.v = <<>>
    \/ ~req.instructions.present \/ req.instructions.v = <<>>

\* request_data.get('description', '')
Description(req) == IF req.description.present THEN req.description.v ELSE <<>>

\* main.py line 219, main_fastapi.py line 245
ValidStructure(v) ==
    Truthy(get(v, "I", JNull)) /\ Truthy(get(v, "R", JNull)) /\ Truthy(get(v, "S", JNull))

\* request_data.get('prepTime'): the number, or None
OptionalNumber(f) == IF f.present THEN JNum(f.v) ELSE JNull

\* a response whose substitutedRecipe takes nothing from the original recipe
SubstitutionBody_NoDefaults(req, v) ==
    JObj(("originalRecipe" :>
            JObj(("T" :> JStr(req.title.v)) @@ ("D" :> JStr(Description(req)))
                 @@ ("R" :> JStr(req.instructions.v))
                 @@ ("prepTime" :> OptionalNumber(req.prepTime))
                 @@ ("cookTime" :> OptionalNumber(req.cookTime))
                 @@ ("servings" :> OptionalNumber(req.servings))))
         @@ ("substitutedRecipe" :>
            JObj(("T" :> get(v, "T", JNull))
                 @@ ("D" :> get(v, "D", JNull))
                 @@ ("I" :> v.o["I"]) @@ ("R" :> v.o["R"]) @@ ("S" :> v.o["S"]))))

\* main.py lines 223-239, main_fastapi.py lines 248-264
SubstitutionBody(req, v) ==
    JObj(("originalRecipe" :>
            JObj(("T" :> JStr(req.title.v)) @@ ("D" :> JStr(Description(req)))
                 @@ ("R" :> JStr(req.instructions.v))
                 @@ ("prepTime" :> OptionalNumber(req.prepTime))
                 @@ ("cookTime" :> OptionalNumber(req.cookTime))
                 @@ ("servings" :> OptionalNumber(req.servings))))
         @@ ("substitutedRecipe" :>
            JObj(("T" :> get(v, "T", JStr(req.title.v)))
                 @@ ("D" :> get(v, "D", JStr(Description(req))))
                 @@ ("I" :> v.o["I"]) @@ ("R" :> v.o["R"]) @@ ("S" :> v.o["S"]))))

\* main.py lines 215-245: .get on a parsed value that is no dict raises
\* AttributeError, which line 243 catches
RecipeHandler_substitutions_response(req, c) ==
    LET r == call_anthropic_api(c, TRUE)
    IN  IF r.exc \/ r.v.k # "obj" THEN HttpResponse(500, MsgSubstitutionFailed, JNull)
        ELSE IF ~ValidStructure(r.v) THEN HttpResponse(500, MsgInvalidFormat, JNull)
        ELSE HttpResponse(200, "", SubstitutionBody(req, r.v))

\* main_fastapi.py lines 41-44: week and shopping_list are List[Dict[str, Any]], notes is str
MealPlan_validates(plan) ==
    /\ plan.o["W"].k = "list" /\ \A i \in 1..Len(plan.o["W"].l) : plan.o["W"].l[i].k = "obj"
    /\ plan.o["L"].k = "list" /\ \A i \in 1..Len(plan.o["L"].l) : plan.o["L"].l[i].k = "obj"
    /\ plan.o["N"].k = "str"

\* main_fastapi.py lines 138-162: every exception, the HTTPException of line
\* 156 included, is caught at line 158 and answered with 500
generate_meal_plan_response(c) ==
    IF c.k # "text" THEN HttpResponse(500, MsgException, JNull)
    ELSE LET r == json_loads(fence_strip(c.text))
         IN  IF ~r.ok \/ r.v.k # "obj" THEN HttpResponse(500, MsgException, JNull)
             ELSE IF ~MealPlan_validates(MealPlanFields(r.v))
             THEN HttpResponse(500, MsgException, JNull)
             ELSE HttpResponse(200, "", MealPlanFields(r.v))

\* main_fastapi.py lines 46-56: a required field that is left out fails the model
FailsRequestModel(req) ==
    \/ ~req.recipeId.present
    \/ ~req.title.present
    \/ ~req.ingredients.present
    \/ ~req.instructions.present

\* main_fastapi.py lines 227-272
generate_recipe_substitutions_response(req, c) ==
    IF c.k # "text" THEN HttpResponse(500, MsgSubstitutionFailed, JNull)
    ELSE LET r == json_loads(fence_strip(c.text))
         IN  IF ~r.ok THEN HttpResponse(500, MsgSubstitutionParse, JNull)
             ELSE IF r.v.k # "obj" THEN HttpResponse(500, MsgSubstitutionFailed, JNull)
             ELSE IF ~ValidStructure(r.v) THEN HttpResponse(500, MsgInvalidFormat, JNull)
             ELSE HttpResponse(200, "", SubstitutionBody(req, r.v))

-----------------------------------------------------------------------------
(* Inputs of the meal planner service *)

Recipe(id, title) == [id |-> id, title |-> title]
Recipe1 == Recipe(<<"1">>, <<"p">>)
Recipe2 == Recipe(<<"2">>, <<"q">>)

MealRequests ==
    {[NoRequest EXCEPT !.recipes = rs] : rs \in {<<>>, <<Recipe1>>, <<Recipe1, Recipe2>>}}

Ingredient(id, quantity, unit, name) ==
    [id |-> id, quantity |-> quantity, unit |-> unit, name |-> name]

\* ingredients with and without quantity, unit and name, and with blanks at the ends
Ingredients ==
    {Ingredient(<<"1">>, <<"2">>, <<"c">>, <<"a">>),
     Ingredient(<<"2">>, <<>>, <<>>, <<"b", " ">>),
     Ingredient(<<"1">>, <<"3">>, <<>>, <<"a">>),
     Ingredient(<<"3">>, <<>>, <<>>, <<>>)}

\* a request with every required field
PlainRequest ==
    [NoRequest EXCEPT !.recipeId = Given(<<"1">>), !.title = Given(<<"t">>),
                      !.ingredients = Given(<<Ingredient(<<"1">>, <<"2">>, <<"c">>, <<"a">>)>>),
                      !.instructions = Given(<<"w">>)]

\* the required fields left out, empty or given; and the optional fields of a
\* request that has the required ones
SubstitutionRequests ==
    {[NoRequest EXCEPT !.recipeId = i, !.title = t, !.ingredients = g,
                       !.instructions = r, !.description = d] :
        i \in {Absent, Given(<<>>), Given(<<"1">>)},
        t \in {Absent, Given(<<>>), Given(<<"t">>)},
        g \in {Absent, Given(<<>>), Given(<<Ingredient(<<"1">>, <<"2">>, <<"c">>, <<"a">>)>>)},
        r \in {Absent, Given(<<>>), Given(<<"w">>)},
        d \in {Absent, Given(<<"d">>)}}
    \cup
    {[PlainRequest EXCEPT !.description = d, !.prepTime = p, !.cookTime = c, !.servings = n] :
        d \in {Absent, Given(<<"d">>)},
        p \in {Absent, Given(<<"5">>)},
        c \in {Absent, Given(<<"9">>)},
        n \in {Absent, Given(<<"4">>)}}
    \cup
    {[PlainRequest EXCEPT !.ingredients = Given(g), !.specificIngredients = m] :
        g \in SeqsUpTo(Ingredients, MaxIngredients) \ {<<>>},
        m \in {<<>>, <<<<"1">>>>, <<<<"2">>, <<"1">>>>}}

RECURSIVE Flatten(_)
Flatten(ss) == IF ss = <<>> THEN <<>> ELSE Head(ss) \o Flatten(Tail(ss))

\* what the engine may write for a substitution
SubstitutionBodies ==
    {<<"{">> \o t \o d \o i \o r \o n \o <<"}">> :
        t \in {<<>>, <<"T", "u">>},
        d \in {<<>>, <<"D", "v">>},
        i \in {<<>>, <<"I", "[", "]">>, <<"I", "z">>, <<"I", "[", "a", "]">>},
        r \in {<<>>, <<"R", "0">>, <<"R", "w">>},
        n \in {<<>>, <<"S", "0">>, <<"S", "m">>}}

\* texts that are no JSON object: other JSON values, and texts that are no JSON
OtherBodies ==
    {<<>>, <<"[", "]">>, <<"[", "a", "]">>, <<"z">>, <<"w">>,
     <<"{">>, <<"{", "}", "}">>, <<"{", "I">>, <<"j", "s", "o", "n">>,
     <<"{", "I", "[", "a", "]", "R", "w", "S", "m">>}

\* what the engine may write for a meal plan
MealTexts ==
    {<<"{", "C", c>> \o k \o <<"}">> :
        c \in {"p", "x"}, k \in {<<>>, <<"K", "1">>, <<"K", "2">>, <<"K", "z">>}}
DayTexts ==
    {<<"{", "Y", "m">> \o b \o e \o <<"}">> :
        b \in {<<>>} \cup {<<"B">> \o m : m \in MealTexts},
        e \in {<<>>, <<"E", "{", "C", "q", "K", "2", "}">>}}
WeekTexts ==
    {<<>>, <<"W", "z">>}
    \cup {<<"W", "[">> \o Flatten(ds) \o <<"]">> : ds \in SeqsUpTo(DayTexts, MaxDays)}
MealPlanBodies ==
    {<<"{">> \o w \o l \o n \o <<"}">> :
        w \in WeekTexts,
        l \in {<<>>, <<"L", "[", "{", "}", "]">>, <<"L", "[", "a", "]">>},
        n \in {<<>>, <<"N", "t">>}}

\* what may stand before and after the JSON
Prefixes ==
    {<<>>, Fence, Fence \o <<"\n">>, <<" ">> \o Fence, FenceEnd,
     <<Backtick, Backtick, "j", "s", "o", "n">>, Fence \o Fence}
Suffixes ==
    {<<>>, FenceEnd, <<"\n">> \o FenceEnd, FenceEnd \o <<"\n">>,
     <<Backtick, Backtick>>, FenceEnd \o FenceEnd}
FewWrappers == {<<<<>>, <<>>>>, <<Fence \o <<"\n">>, <<"\n">> \o FenceEnd>>}

Bodies(ep) ==
    (IF ep = "meal" THEN MealPlanBodies ELSE SubstitutionBodies) \cup OtherBodies
FewBodies(ep) ==
    IF ep = "meal"
    THEN {<<"{", "W", "[", "{", "Y", "m", "B", "{", "C", "p", "K", "1", "}", "}", "]", "N", "t", "}">>,
          <<"{", "}">>, <<"[", "]">>, <<"{", "W">>}
    ELSE {<<"{", "I", "[", "a", "]", "R", "w", "S", "m", "}">>,
          <<"{", "T", "u", "I", "[", "a", "]", "R", "w", "}">>, <<"[", "]">>, <<"{", "I">>}

ReplyTexts(ep) ==
    {w[1] \o b \o w[2] : b \in Bodies(ep), w \in FewWrappers}
    \cup {a \o b \o z : b \in FewBodies(ep), a \in Prefixes, z \in Suffixes}

\* the engine fails, answers without content, or answers with a text
Completions(ep) ==
    {[k |-> "error", text |-> <<>>], [k |-> "nocontent", text |-> <<>>]}
    \cup {[k |-> "text", text |-> t] : t \in ReplyTexts(ep)}

-----------------------------------------------------------------------------
(* POST /generate-meal-plan and POST /recipe-substitutions *)

PlannerInit ==
    /\ svc = "planner"
    /\ pc = "request"
    /\ variant \in {"http", "fastapi"}
    /\ api_key \in BOOLEAN
    /\ \/ endpoint = "meal" /\ request \in MealRequests
       \/ endpoint = "subst" /\ request \in SubstitutionRequests
    /\ completion = NoCompletion
    /\ response = NoResponse
    /\ api_calls = 0
    /\ ingredients_text = <<>>
    /\ inflight = <<>>
    /\ ParserIdle

\* a handler that starts over after a failure
Respond_RetryOnFailure(r) ==
    /\ response' = r
    /\ pc' = IF r.status = 500 THEN "request" ELSE "done"

\* _send_response / return / raise HTTPException: the handler ends here
Respond(r) ==
    /\ response' = r
    /\ pc' = "done"

\* main.py lines 247-276: without an API key _call_anthropic_api raises before
\* it opens the connection; otherwise the request goes out
CallEngine(on_no_key) ==
    IF variant = "http" /\ ~api_key
    THEN Respond(on_no_key) /\ UNCHANGED api_calls
    ELSE pc' = "called" /\ api_calls' = api_calls + 1 /\ UNCHANGED response

\* the engine's answer; a client without a key gets no text (main_fastapi.py lines 22-24)
Answer(c) ==
    /\ api_key \/ c.k = "error"
    /\ completion' = c

\* main.py lines 79-144, up to the call
RecipeHandler_handle_meal_plan ==
    /\ svc = "planner" /\ variant = "http" /\ endpoint = "meal" /\ pc = "request"
    /\ CallEngine(HttpResponse(500, MsgException, JNull))
    /\ UNCHANGED <<svc, parserVars, inflight, variant, endpoint, api_key, request, completion, ingredients_text>>

\* main.py lines 144-148, from the engine's answer on
RecipeHandler_handle_meal_plan_reply ==
    /\ svc = "planner" /\ variant = "http" /\ endpoint = "meal" /\ pc = "called"
    /\ \E c \in Completions(endpoint) :
          Answer(c) /\ Respond(RecipeHandler_meal_plan_response(c))
    /\ UNCHANGED <<svc, parserVars, inflight, variant, endpoint, api_key, request, api_calls, ingredients_text>>

\* main.py lines 150-216, up to the call
RecipeHandler_handle_substitutions ==
    /\ svc = "planner" /\ variant = "http" /\ endpoint = "subst" /\ pc = "request"
    /\ IF MissingRequired(request)
       THEN /\ Respond(HttpResponse(400, MsgMissingFields, JNull))
            /\ UNCHANGED <<api_calls, ingredients_text>>
       ELSE /\ ingredients_text' = join(<<"\n">>, ingredients_list(request))
            /\ CallEngine(HttpResponse(500, MsgSubstitutionFailed, JNull))
    /\ UNCHANGED <<svc, parserVars, inflight, variant, endpoint, api_key, request, completion>>

\* main.py lines 216-245, from the engine's answer on
RecipeHandler_handle_substitutions_reply ==
    /\ svc = "planner" /\ variant = "http" /\ endpoint = "subst" /\ pc = "called"
    /\ \E c \in Completions(endpoint) :
          Answer(c) /\ Respond(RecipeHandler_substitutions_response(request, c))
    /\ UNCHANGED <<svc, parserVars, inflight, variant, endpoint, api_key, request, api_calls, ingredients_text>>

\* main_fastapi.py lines 66-136, up to the call
generate_meal_plan ==
    /\ svc = "planner" /\ variant = "fastapi" /\ endpoint = "meal" /\ pc = "request"
    /\ CallEngine(NoResponse)
    /\ UNCHANGED <<svc, parserVars, inflight, variant, endpoint, api_key, request, completion, ingredients_text>>

\* main_fastapi.py lines 138-162, from the engine's answer on
generate_meal_plan_reply ==
    /\ svc = "planner" /\ variant = "fastapi" /\ endpoint = "meal" /\ pc = "called"
    /\ \E c \in Completions(endpoint) :
          Answer(c) /\ Respond(generate_meal_plan_response(c))
    /\ UNCHANGED <<svc, parserVars, inflight, variant, endpoint, api_key, request, api_calls, ingredients_text>>

\* main_fastapi.py lines 164-225, up to the call: FastAPI answers a body that
\* fails SubstitutionRequest with 422 before the function runs
generate_recipe_substitutions ==
    /\ svc = "planner" /\ variant = "fastapi" /\ endpoint = "subst" /\ pc = "request"
    /\ IF FailsRequestModel(request)
       THEN /\ Respond(HttpResponse(422, MsgValidation, JNull))
            /\ UNCHANGED <<api_calls, ingredients_text>>
       ELSE /\ ingredients_text' = join(<<"\n">>, ingredients_list(request))
            /\ CallEngine(NoResponse)
    /\ UNCHANGED <<svc, parserVars, inflight, variant, endpoint, api_key, request, completion>>

\* main_fastapi.py lines 227-272, from the engine's answer on
generate_recipe_substitutions_reply ==
    /\ svc = "planner" /\ variant = "fastapi" /\ endpoint = "subst" /\ pc = "called"
    /\ \E c \in Completions(endpoint) :
          Answer(c) /\ Respond(generate_recipe_substitutions_response(request, c))
    /\ UNCHANGED <<svc, parserVars, inflight, variant, endpoint, api_key, request, api_calls, ingredients_text>>

PlannerNext ==
    \/ RecipeHandler_handle_meal_plan
    \/ RecipeHandler_handle_meal_plan_reply
    \/ RecipeHandler_handle_substitutions
    \/ RecipeHandler_handle_substitutions_reply
    \/ generate_meal_plan
    \/ generate_meal_plan_reply
    \/ generate_recipe_substitutions
    \/ generate_recipe_substitutions_reply

SpecPlanner == PlannerInit /\ [][PlannerNext]_vars

-----------------------------------------------------------------------------
(* Claims about the meal planner service *)

PlannerDone == svc = "planner" /\ pc = "done"

\* the completion text parses as JSON once the fence markers are stripped
Replied == completion.k = "text"
StrippedJson == json_loads(fence_strip(completion.text))

\* a parsed reply that has ingredients, instructions and substitutionNotes, none of them empty
HasAllThree(v) ==
    /\ v.k = "obj"
    /\ \A key \in {"I", "R", "S"} : key \in DOMAIN v.o /\ Truthy(v.o[key])

\* C6: a substitution request never succeeds with a substitutedRecipe that
\* lacks a non-empty ingredients, instructions or substitutionNotes: whenever
\* the engine's parsed JSON has one of the three missing or empty, the answer
\* is HTTP 500 with "Invalid response format from AI. Please try again.", in
\* both variants.
C6_InvalidReplyRejected ==
    (PlannerDone /\ endpoint = "subst") =>
        /\ response.status = 200 => HasAllThree(response.body.o["substitutedRecipe"])
        /\ (Replied /\ StrippedJson.ok /\ ~HasAllThree(StrippedJson.v)) =>
              /\ response.status = 500
              /\ response.detail = "Invalid response format from AI. Please try again."

\* the request leaves out recipeId, title, ingredients or instructions
LeavesOutRequired ==
    \E f \in {"recipeId", "title", "ingredients", "instructions"} : ~request[f].present

\* C7: a /recipe-substitutions request that leaves out recipeId, title,
\* ingredients or instructions is answered with HTTP 400, and the completion
\* engine is never called for it.
C7_MissingFieldIs400 ==
    (svc = "planner" /\ endpoint = "subst" /\ LeavesOutRequired) =>
        /\ api_calls = 0
        /\ pc # "called"
        /\ pc = "done" => response.status = 400

\* C8: when the completion text, stripped of its fence markers, is not valid
\* JSON, the meal-plan and the substitution handler of both variants answer
\* with HTTP 500 and no body: a response is sent, and it is never a 200.
C8_MalformedJsonFails ==
    (PlannerDone /\ Replied /\ ~StrippedJson.ok) =>
        /\ response.status = 500
        /\ response.body = JNull

\* a fenced reply that breaks off inside the JSON, on the meal-plan path
C8_Witness ==
    /\ PlannerDone /\ variant = "http" /\ endpoint = "meal"
    /\ completion = [k |-> "text", text |-> Fence \o <<"{", "W">> \o FenceEnd]
    /\ response.status = 500

\* what each handler answers to a completion
ResponseTo(c) ==
    IF variant = "http"
    THEN IF endpoint = "meal" THEN RecipeHandler_meal_plan_response(c)
         ELSE RecipeHandler_substitutions_response(request, c)
    ELSE IF endpoint = "meal" THEN generate_meal_plan_response(c)
         ELSE generate_recipe_substitutions_response(request, c)

\* the text is '```json' + j + '```'
IsFenced(t) == Len(t) >= Len(Fence) + Len(FenceEnd) /\ startswith(t, Fence) /\ endswith(t, FenceEnd)
Unfenced(t) == SubSeq(t, Len(Fence) + 1, Len(t) - Len(FenceEnd))

\* j carries no fence marker of its own at either end
CarriesNoFence(j) == ~startswith(strip(j), Fence) /\ ~endswith(strip(j), FenceEnd)

\* C9: a completion text that is a JSON text j between a leading ```json and
\* a trailing ``` is handled as j alone is: stripping and parsing give the same
\* value, or fail alike, and the response is the same, on the meal-plan and on
\* the substitution path.  It holds for every valid JSON text j, and for every
\* malformed j that carries no fence marker of its own.
C9_FencedParsesAlike ==
    (PlannerDone /\ Replied /\ IsFenced(strip(completion.text))) =>
        LET j == Unfenced(strip(completion.text))
            fenced == json_loads(fence_strip(completion.text))
            bare == json_loads(fence_strip(j))
        IN  (json_loads(j).ok \/ CarriesNoFence(j)) =>
                /\ fenced.ok = bare.ok
                /\ fenced.v = bare.v
                /\ response = ResponseTo([k |-> "text", text |-> j])

\* a fenced substitution reply, with newlines inside the fence, is accepted
C9_Witness ==
    /\ PlannerDone /\ endpoint = "subst"
    /\ completion.text =
          Fence \o <<"\n">> \o <<"{", "I", "[", "a", "]", "R", "w", "S", "m", "}">> \o <<"\n">> \o FenceEnd
    /\ response.status = 200
    /\ response.body.o["substitutedRecipe"].o["S"] = JStr(<<"m">>)

\* the breakfast, lunch and dinner entries of the week of a meal plan
MealsOf(plan) ==
    UNION {{plan.o["W"].l[i].o[m] : m \in {"B", "U", "E"} \cap DOMAIN plan.o["W"].l[i].o} :
              i \in {n \in 1..Len(plan.o["W"].l) : plan.o["W"].l[n].k = "obj"}}

\* C10: in every meal plan returned, an entry whose recipe is the title of a
\* supplied recipe carries that recipe's id as recipeId, and an entry whose
\* recipe is no supplied title has no recipeId key.
C10_RecipeIdMatches ==
    (PlannerDone /\ endpoint = "meal" /\ response.status = 200) =>
        \A meal \in MealsOf(response.body) :
            (meal.k = "obj" /\ "C" \in DOMAIN meal.o) =>
                /\ \A i \in 1..Len(request.recipes) :
                      meal.o["C"] = JStr(request.recipes[i].title) =>
                          "K" \in DOMAIN meal.o /\ meal.o["K"] = JStr(request.recipes[i].id)
                /\ (\A i \in 1..Len(request.recipes) :
                        meal.o["C"] # JStr(request.recipes[i].title)) =>
                          "K" \notin DOMAIN meal.o

-----------------------------------------------------------------------------
(* Claims about the course of one planner request *)

\* the request gets as far as the engine call: it passes the handler's (or the
\* request model's) check of the required fields, and the http variant has its key
ReachesEngine ==
    /\ endpoint = "subst" =>
          IF variant = "http" THEN ~MissingRequired(request) ELSE ~FailsRequestModel(request)
    /\ variant = "http" => api_key

\* where the request stands, and what it has done so far
C11_Course ==
    svc = "planner" =>
        /\ pc = "request" => api_calls = 0 /\ response = NoResponse
        /\ pc = "called" => api_calls = 1 /\ response = NoResponse /\ ReachesEngine
        /\ pc = "done" =>
              /\ api_calls = (IF ReachesEngine THEN 1 ELSE 0)
              /\ response.status \in {200, 400, 422, 500}

\* a step is never taken from the terminal state, and the step after the
\* engine call is terminal whatever the engine answered
C11_Step ==
    /\ pc # "done"
    /\ pc = "called" => pc' = "done" /\ response' # NoResponse

\* C11 (as the code has it): every invocation of generateMealPlan and of
\* generateSubstitutions is a single pass that calls the completion engine at
\* most once -- exactly once when the request passes the check of its required
\* fields and, in the http variant, ANTHROPIC_API_KEY is set; not at all
\* otherwise -- and ends in one terminal response; after a failed engine call
\* or a failed response check the handler answers once and takes no further step.
C11_SinglePass == []C11_Course /\ [][C11_Step]_vars

\* the engine call failed: one call was made, one 500 was sent
C11_Witness ==
    /\ PlannerDone /\ api_key /\ completion.k = "error"
    /\ api_calls = 1 /\ response.status = 500

\* C11 (as the specification has it): every invocation makes exactly one call
\* to the completion engine and ends in one terminal response.
C11_ExactlyOneCall ==
    PlannerDone => api_calls = 1 /\ response # NoResponse

\* the value of a key of the parsed reply, or the default when the key is absent
KeyOr(v, key, default) ==
    IF v.k = "obj" /\ key \in DOMAIN v.o THEN v.o[key] ELSE default

\* C12: whenever the fence-stripped completion text parses as JSON,
\* generateMealPlan succeeds, and the MealPlan it returns has as week,
\* shopping_list and notes the values of those keys in the parsed JSON, each
\* defaulted on its own to the empty list, the empty list and the empty string
\* when its key is absent; nothing checked after the parse makes it fail.
C12_ParsedReplySucceeds ==
    (PlannerDone /\ endpoint = "meal" /\ Replied /\ StrippedJson.ok) =>
        /\ response.status = 200
        /\ response.body.k = "obj"
        /\ DOMAIN response.body.o = {"W", "L", "N"}
        /\ response.body.o["W"] = KeyOr(StrippedJson.v, "W", JList(<<>>))
        /\ response.body.o["L"] = KeyOr(StrippedJson.v, "L", JList(<<>>))
        /\ response.body.o["N"] = KeyOr(StrippedJson.v, "N", JStr(<<>>))

-----------------------------------------------------------------------------
(* Claims about the substitution response *)

\* a request field as the response carries it: its value, or null when it was left out
Carried(f) == IF f.present THEN JNum(f.v) ELSE JNull

\* C13: when the engine's parsed JSON has non-empty ingredients, instructions
\* and substitutionNotes, generateSubstitutions answers 200 with
\* {originalRecipe, substitutedRecipe}: originalRecipe has the request's title,
\* description, instructions, prepTime, cookTime and servings unchanged,
\* substitutedRecipe has the engine's ingredients, instructions and
\* substitutionNotes unchanged, and its title and description are the original
\* recipe's wherever the engine leaves that key out (the engine's otherwise).
C13_SubstitutionComposed ==
    (PlannerDone /\ endpoint = "subst" /\ Replied /\ StrippedJson.ok
        /\ HasAllThree(StrippedJson.v)) =>
        LET v == StrippedJson.v
            original == response.body.o["originalRecipe"]
            substituted == response.body.o["substitutedRecipe"]
        IN  /\ response.status = 200
            /\ DOMAIN response.body.o = {"originalRecipe", "substitutedRecipe"}
            /\ original.o["T"] = JStr(request.title.v)
            /\ original.o["D"] =
                  JStr(IF request.description.present THEN request.description.v ELSE <<>>)
            /\ original.o["R"] = JStr(request.instructions.v)
            /\ original.o["prepTime"] = Carried(request.prepTime)
            /\ original.o["cookTime"] = Carried(request.cookTime)
            /\ original.o["servings"] = Carried(request.servings)
            /\ \A key \in {"I", "R", "S"} : substituted.o[key] = v.o[key]
            /\ \A key \in {"T", "D"} :
                  substituted.o[key] = IF key \in DOMAIN v.o THEN v.o[key] ELSE original.o[key]

\* the engine leaves out title and description; the request has its times
C13_Witness ==
    /\ PlannerDone /\ endpoint = "subst" /\ response.status = 200
    /\ Replied /\ StrippedJson.ok /\ DOMAIN StrippedJson.v.o = {"I", "R", "S"}
    /\ request.description = Given(<<"d">>) /\ request.prepTime = Given(<<"5">>)
    /\ response.body.o["substitutedRecipe"].o["D"] = JStr(<<"d">>)
    /\ response.body.o["originalRecipe"].o["prepTime"] = JNum(<<"5">>)

-----------------------------------------------------------------------------
(* Requests served side by side *)

\* The parser service's handlers are plain functions, which FastAPI runs on
\* worker threads: their steps interleave.  The planner's http variant is an
\* HTTPServer, which serves one request at a time (main.py line 327), and the
\* handlers of its FastAPI variant are coroutines that never await, so one
\* runs from its first line to its return before the next starts.

\* the frame of one request: its input, what the engine answers to its call
\* (engine, answer), and the handler's local variables
Frame(kind, t, engine, req) ==
    [kind |-> kind, pc |-> "request",
     text |-> t, engine |-> engine, parsed |-> IdleEngine, result |-> NoResult,
     request |-> req, ingredients_text |-> <<>>, answer |-> NoCompletion,
     completion |-> NoCompletion, response |-> NoResponse]

\* the requests that may arrive at a service
Arrivals(service) ==
    IF service = "parser"
    THEN {Frame("parse", t, e, NoRequest) : t \in {<<"a">>, <<"1", " ", "a">>}, e \in BatchEngines}
    ELSE {Frame("meal", <<>>, IdleEngine, [NoRequest EXCEPT !.recipes = <<Recipe1>>])}
         \cup {Frame("subst", <<>>, IdleEngine, r) :
                 r \in {PlainRequest, [PlainRequest EXCEPT !.title = Absent],
                        [PlainRequest EXCEPT !.specificIngredients = <<<<"1">>>>]}}

\* what the completion engine may answer
FewCompletions(ep) ==
    {[k |-> "error", text |-> <<>>], [k |-> "nocontent", text |-> <<>>]}
    \cup {[k |-> "text", text |-> t] : t \in FewBodies(ep)}

\* an assignment to a variable that all requests share
Assign_Shared(i, name, value) ==
    [j \in DOMAIN inflight |-> [inflight[j] EXCEPT ![name] = value]]

\* an assignment to a local variable of request i
Assign(i, name, value) ==
    [inflight EXCEPT ![i] = [inflight[i] EXCEPT ![name] = value]]

\* the response of a request that does not get to the engine call, or NoResponse
Rejection(v, key, ep, req) ==
    IF ep = "subst" /\ v = "http" /\ MissingRequired(req)
    THEN HttpResponse(400, MsgMissingFields, JNull)
    ELSE IF ep = "subst" /\ v = "fastapi" /\ FailsRequestModel(req)
    THEN HttpResponse(422, MsgValidation, JNull)
    ELSE IF v = "http" /\ ~key
    THEN HttpResponse(500, IF ep = "meal" THEN MsgException ELSE MsgSubstitutionFailed, JNull)
    ELSE NoResponse

\* the response of a handler to the completion c
HandlerResponse(v, ep, req, c) ==
    IF v = "http"
    THEN IF ep = "meal" THEN RecipeHandler_meal_plan_response(c)
         ELSE RecipeHandler_substitutions_response(req, c)
    ELSE IF ep = "meal" THEN generate_meal_plan_response(c)
         ELSE generate_recipe_substitutions_response(req, c)

ConcurrentInit ==
    /\ svc = "concurrent"
    /\ pc = "serving"
    /\ \/ variant = "parser" /\ api_key = FALSE
       \/ variant \in {"http", "fastapi"} /\ api_key \in BOOLEAN
    /\ inflight \in [1..MaxRequests -> Arrivals(variant)]
    /\ endpoint = "none"
    /\ request = NoRequest
    /\ completion = NoCompletion
    /\ response = NoResponse
    /\ api_calls = 0
    /\ ingredients_text = <<>>
    /\ ParserIdle

\* ingredient-parser-service/main.py line 43: parsed = parse_ingredient(text)
safe_parse_ingredient_call(i) ==
    /\ inflight[i].kind = "parse" /\ inflight[i].pc = "request"
    /\ inflight' = [Assign(i, "parsed", inflight[i].engine) EXCEPT ![i].pc = "called"]

\* ingredient-parser-service/main.py lines 45-110: the rest of the function,
\* which reads its locals text and parsed
safe_parse_ingredient_return(i) ==
    /\ inflight[i].kind = "parse" /\ inflight[i].pc = "called"
    /\ inflight' =
          [Assign(i, "result", safe_parse_ingredient(inflight[i].text, inflight[i].parsed))
              EXCEPT ![i].pc = "done"]

\* a planner handler up to its engine call; no other handler is halfway
Handler_start(i) ==
    /\ inflight[i].kind \in {"meal", "subst"} /\ inflight[i].pc = "request"
    /\ \A j \in DOMAIN inflight : inflight[j].pc # "called"
    /\ LET f == inflight[i]
           rejection == Rejection(variant, api_key, f.kind, f.request)
           built == IF f.kind = "subst" /\ ~(rejection.status \in {400, 422})
                    THEN Assign(i, "ingredients_text", join(<<"\n">>, ingredients_list(f.request)))
                    ELSE inflight
       IN  inflight' =
             IF rejection # NoResponse
             THEN [built EXCEPT ![i].response = rejection, ![i].pc = "done"]
             ELSE [built EXCEPT ![i].pc = "called"]

\* a planner handler from the engine's answer on
Handler_reply(i) ==
    /\ inflight[i].kind \in {"meal", "subst"} /\ inflight[i].pc = "called"
    /\ \E c \in FewCompletions(inflight[i].kind) :
          /\ api_key \/ c.k = "error"
          /\ LET held == Assign(i, "completion", c)
             IN  inflight' =
                   [held EXCEPT ![i].answer = c, ![i].pc = "done",
                                ![i].response =
                                    HandlerResponse(variant, inflight[i].kind,
                                                    inflight[i].request, held[i].completion)]

ConcurrentNext ==
    \E i \in 1..MaxRequests :
        /\ svc = "concurrent"
        /\ \/ safe_parse_ingredient_call(i)
           \/ safe_parse_ingredient_return(i)
           \/ Handler_start(i)
           \/ Handler_reply(i)
        /\ UNCHANGED <<svc, pc, parserVars, variant, endpoint, api_key, request, completion,
                       response, api_calls, ingredients_text>>

SpecConcurrent == ConcurrentInit /\ [][ConcurrentNext]_vars

\* the answer to request f when it is the only one served
ServedAlone(f) ==
    IF Rejection(variant, api_key, f.kind, f.request) # NoResponse
    THEN Rejection(variant, api_key, f.kind, f.request)
    ELSE HandlerResponse(variant, f.kind, f.request, f.answer)

\* every finished request has the result it has when served alone with the
\* same engine replies
C14_SameAsAlone ==
    svc = "concurrent" =>
        \A i \in DOMAIN inflight :
            inflight[i].pc = "done" =>
                IF inflight[i].kind = "parse"
                THEN inflight[i].result =
                        safe_parse_ingredient(inflight[i].text, inflight[i].engine)
                ELSE inflight[i].response = ServedAlone(inflight[i])

\* no step alters the input of a request, and none alters the prompt or the
\* result of a request that is not the one taking the step
C14_Step ==
    \A i \in DOMAIN inflight :
        /\ inflight'[i].text = inflight[i].text
        /\ inflight'[i].request = inflight[i].request
        /\ inflight'[i].pc = inflight[i].pc =>
              /\ inflight'[i].ingredients_text = inflight[i].ingredients_text
              /\ inflight'[i].parsed = inflight[i].parsed
              /\ inflight'[i].completion = inflight[i].completion
              /\ inflight'[i].result = inflight[i].result
              /\ inflight'[i].response = inflight[i].response

\* C14: the services hold no shared mutable state across requests: for the
\* requests served side by side and every interleaving of their steps that the
\* servers allow, each request's response is the one it gets when served alone
\* with the same engine replies, and no step of one request reads or alters
\* the input, the prompt or the result of another.
C14_NoSharedState == []C14_SameAsAlone /\ [][C14_Step]_vars

\* two parser requests with different texts and engine replies, both between
\* their engine call and their return, each holding its own parse
C14_Witness ==
    /\ svc = "concurrent" /\ variant = "parser"
    /\ inflight[1].pc = "called" /\ inflight[2].pc = "called"
    /\ inflight[1].text # inflight[2].text
    /\ inflight[1].parsed # inflight[2].parsed

-----------------------------------------------------------------------------
(* Claims about the name of a parsed ingredient *)

\* the engine reports name tokens
HasNameTokens == parsed.name.k = "list" /\ parsed.name.toks # <<>>

\* C15: when the engine reports a non-empty sequence of name tokens, the name
\* is what is left of the first token's text once the whitespace at its ends
\* and its trailing comma are removed, so it neither begins nor ends with
\* whitespace and does not end with a comma; when nothing is left, or the
\* engine reports no name tokens, the name is the full original text.
C15_NameCleaned ==
    (ParseDone /\ ~EngineFails) =>
        LET name == result.ret.name
        IN  IF HasNameTokens
            THEN \/ name = text
                 \/ /\ name # <<>>
                    /\ IsSubstring(name, str(parsed.name.toks[1]))
                    /\ name[1] \notin Whitespace
                    /\ name[Len(name)] \notin Whitespace
                    /\ name[Len(name)] # ","
            ELSE name = text

-----------------------------------------------------------------------------
(* Claims about the substitution prompt *)

\* the lines of a text: text.split('\n')
RECURSIVE SplitLines(_)
SplitLines(t) ==
    IF \A i \in 1..Len(t) : t[i] # "\n" THEN <<t>>
    ELSE LET k == CHOOSE i \in 1..Len(t) : t[i] = "\n" /\ \A j \in 1..(i - 1) : t[j] # "\n"
         IN  <<SubSeq(t, 1, k - 1)>> \o SplitLines(SubSeq(t, k + 1, Len(t)))

\* the handler has built its prompt: the request passed the check of its fields
PromptBuilt ==
    /\ svc = "planner" /\ endpoint = "subst" /\ pc \in {"called", "done"}
    /\ request.ingredients.present
    /\ response.status \notin {400, 422}

\* C16: in the substitution prompt the ingredients of the request stand one
\* per line, in the order of the request, each as the trimmed text
\* "{quantity} {unit} {name}", and a line begins with the literal
\* "[SUBSTITUTE] " if and only if the id of its ingredient is a member of
\* specificIngredients.
C16_IngredientLines ==
    PromptBuilt =>
        LET ings == request.ingredients.v
            lines == SplitLines(ingredients_text)
            trimmed(g) == strip(g.quantity \o <<" ">> \o g.unit \o <<" ">> \o g.name)
            marked(g) == \E k \in 1..Len(request.specificIngredients) :
                            request.specificIngredients[k] = g.id
        IN  IF ings = <<>> THEN ingredients_text = <<>>
            ELSE /\ Len(lines) = Len(ings)
                 /\ \A i \in 1..Len(ings) :
                       /\ marked(ings[i]) <=> startswith(lines[i], SubstituteMark)
                       /\ lines[i] = (IF marked(ings[i]) THEN SubstituteMark ELSE <<>>)
                                        \o trimmed(ings[i])

\* two ingredients, the first of them marked
C16_Witness ==
    /\ PromptBuilt /\ pc = "called"
    /\ request.ingredients.v = <<Ingredient(<<"1">>, <<"2">>, <<"c">>, <<"a">>),
                                 Ingredient(<<"2">>, <<>>, <<>>, <<"b", " ">>)>>
    /\ request.specificIngredients = <<<<"1">>>>
    /\ ingredients_text = SubstituteMark \o <<"2", " ", "c", " ", "a", "\n", "b">>

====
